---- MODULE Spec2Model ----
(***************************************************************************)
(* A model of seal-proxy: the relay binary (main.rs), its request pipeline *)
(* (server.rs, middleware.rs), the forwarding handler (handlers.rs), the   *)
(* bearer-token gate (allowers.rs) and the metrics push runtime            *)
(* (runtime.rs).                                                           *)
(*                                                                         *)
(* Strings that the code inspects byte by byte (header values, tokens,     *)
(* bodies) are sequences of byte values 0..255.  Header names and type     *)
(* names, which the code only compares for equality, are TLA+ strings.     *)
(***************************************************************************)
EXTENDS Integers, Sequences, FiniteSets, TLC

(***************************************************************************)
(* Bounds of the model (not program constants).                            *)
(***************************************************************************)
MaxItems == 2
MaxFailures == 2
MaxTime == 6
MaxVals == 2

(***************************************************************************)
(* Program constants.                                                      *)
(***************************************************************************)
\* server.rs:31-34  var!("MAX_BODY_SIZE", 1024 * 1024 * 5): the limit is read
\* from the environment; the model runs with MAX_BODY_SIZE=2.
MAX_BODY_SIZE == 2
\* handlers.rs:57  to_bytes(body, usize::MAX).  usize::MAX is beyond TLC's
\* integers; any limit above every modelled body length behaves the same.
USIZE_MAX == 2147483647
\* config.rs:90-92  push_interval(), in model time units.
PUSH_INTERVAL == 2

\* http status codes (axum::http::StatusCode)
OK == 200
UNAUTHORIZED == 401
NOT_FOUND == 404
METHOD_NOT_ALLOWED == 405
REQUEST_TIMEOUT == 408
PAYLOAD_TOO_LARGE == 413
INTERNAL_SERVER_ERROR == 500
BAD_GATEWAY == 502

(***************************************************************************)
(* Byte strings.                                                           *)
(***************************************************************************)
\* "Bearer "
BearerPrefix == <<66, 101, 97, 114, 101, 114, 32>>

\* str::strip_prefix: Some(rest) when s starts with p, None otherwise.
strip_prefix(s, p) ==
    IF Len(s) >= Len(p) /\ SubSeq(s, 1, Len(p)) = p
    THEN [some |-> TRUE, rest |-> SubSeq(s, Len(p) + 1, Len(s))]
    ELSE [some |-> FALSE, rest |-> <<>>]

\* HeaderValue::to_str: Ok only when every byte is visible ASCII or a tab.
to_str_ok(v) == \A i \in DOMAIN v : (v[i] >= 32 /\ v[i] < 127) \/ v[i] = 9

\* HeaderValue::from_bytes: a byte is valid when >= 32 and not DEL, or a tab.
HeaderValue_from_bytes_ok(v) ==
    \A i \in DOMAIN v : (v[i] >= 32 /\ v[i] # 127 /\ v[i] <= 255) \/ v[i] = 9

\* HeaderName::from_bytes: the names of the model are lower-case tokens; the
\* empty name is the one invalid name.
HeaderName_from_bytes_ok(n) == n # ""

\* String::from_utf8_lossy as used by reqwest's Response::text followed by the
\* UTF-8 encoding of the String into the response body: an ASCII byte is kept,
\* a byte that is not valid UTF-8 becomes U+FFFD, encoded EF BF BD.  (The
\* bodies of the model hold no multi-byte sequences: a byte >= 128 is always
\* an invalid one.)
RECURSIVE text(_)
text(bytes) ==
    IF bytes = <<>> THEN <<>>
    ELSE (IF Head(bytes) < 128 THEN <<Head(bytes)>> ELSE <<239, 191, 189>>)
         \o text(Tail(bytes))

(***************************************************************************)
(* http::HeaderMap: a multimap kept as a sequence of entries with distinct *)
(* names, each holding its values in order.  iter() yields one (name,      *)
(* value) pair per value, entry by entry.                                  *)
(***************************************************************************)
EmptyHeaderMap == <<>>

HasName(h, n) == \E i \in DOMAIN h : h[i].name = n

IndexOf(h, n) == CHOOSE i \in DOMAIN h : h[i].name = n

\* HeaderMap::get: the first value of the name, if any.
HeaderMap_get(h, n) ==
    IF HasName(h, n)
    THEN [some |-> TRUE, value |-> h[IndexOf(h, n)].values[1]]
    ELSE [some |-> FALSE, value |-> <<>>]

\* HeaderMap::insert: sets the value, removing the name's earlier values.
HeaderMap_insert(h, n, v) ==
    IF HasName(h, n)
    THEN [h EXCEPT ![IndexOf(h, n)].values = <<v>>]
    ELSE Append(h, [name |-> n, values |-> <<v>>])

\* HeaderMap::iter as a sequence of <<name, value>> pairs.
RECURSIVE HeaderMap_iter(_)
HeaderMap_iter(h) ==
    IF h = <<>> THEN <<>>
    ELSE [i \in 1..Len(Head(h).values) |-> <<Head(h).name, Head(h).values[i]>>]
         \o HeaderMap_iter(Tail(h))

\* The (name, value) pairs of a map, as a set.
Pairs(h) == {HeaderMap_iter(h)[i] : i \in DOMAIN HeaderMap_iter(h)}

\* The body of the loop of convert_headers for one inbound pair.
convert_one(out, kv) ==
    IF HeaderName_from_bytes_ok(kv[1])
    THEN IF HeaderValue_from_bytes_ok(kv[2])
         THEN HeaderMap_insert(out, kv[1], kv[2])
         ELSE out
    ELSE out

RECURSIVE convert_loop(_, _)
convert_loop(out, kvs) ==
    IF kvs = <<>> THEN out
    ELSE convert_loop(convert_one(out, Head(kvs)), Tail(kvs))

\* Variant of convert_headers: the loop leaves out the first pair the iterator
\* yields.
convert_headers_skip_first(axum_headers) ==
    IF HeaderMap_iter(axum_headers) = <<>>
    THEN EmptyHeaderMap
    ELSE convert_loop(EmptyHeaderMap, Tail(HeaderMap_iter(axum_headers)))

\* handlers.rs convert_headers
convert_headers(axum_headers) ==
    convert_loop(EmptyHeaderMap, HeaderMap_iter(axum_headers))

(***************************************************************************)
(* The bearer-token gate.                                                  *)
(***************************************************************************)
\* Tokens "a", "A" and "ab": a case variant and a prefix extension of "a".
Tokens == {<<97>>, <<65>>, <<97, 98>>}

None == [some |-> FALSE, bearer_tokens |-> {}]
Some(set) == [some |-> TRUE, bearer_tokens |-> set]

\* items.iter().map(|item| item.bearer_token.clone()).collect::<HashSet<_>>()
collect(items) == {items[i] : i \in DOMAIN items}

\* Variant of allowed: a key is accepted when a loaded token is a prefix of it.
allowed_prefix(provider, key) ==
    \E t \in provider.bearer_tokens : strip_prefix(key, t).some

\* allowers.rs:22-26  Allower::allowed: self.bearer_tokens.contains(key)
allowed(provider, key) == key \in provider.bearer_tokens

(***************************************************************************)
(* State.                                                                  *)
(***************************************************************************)
VARIABLES
    \* main.rs
    mpc,                 \* where main is: load_config, new_provider, bind,
                         \* serving, exit_err, killed
    bearer_tokens_path,  \* Args::bearer_tokens_path: none, ok, unreadable, malformed
    items,               \* BearerTokenConfig::items of the file (bearer_token of each)
    allower,             \* Option<BearerTokenProvider>
    startupErr,          \* the step whose error main returned: none, config,
                         \* provider, bind
    \* one connection's request through the router
    rpc,                 \* idle, layers, endpoint, relay_body, relay_send,
                         \* relay_text, responded
    req,                 \* the inbound request
    li,                  \* index of the next layer of the stack to run
    extensions,          \* the request's extensions, by type name
    timeoutArmed,        \* the TimeoutLayer's timer is running
    authResult,          \* none, missing_extension, rejected, passed
    relayInvoked,        \* relay_metrics_to_mimir was called for the request
    relayErr,            \* none, body_read, send, no_response, text_read
    body_bytes,          \* the bytes to_bytes returned
    upstreamReq,         \* the outbound request as the upstream received it
    upstreamResp,        \* the upstream's answer
    resp,                \* the response to the caller
    failures,            \* relay failures so far (saturating at MaxFailures)
    \* BearerTokenProvider queried directly
    queried,
    \* convert_headers applied directly
    hIn, hOut, hpc,
    \* runtime.rs MetricPushRuntime and its owner
    pushPc,              \* NotStarted, Waiting, Pushing, Done
    cancelled,           \* EnableMetricsPush::cancel
    now,                 \* the clock
    deadline,            \* the interval's next deadline
    client,              \* generation of the push client
    pushOutcomeLog,      \* outcome of the last finished push cycle
    cancelledAtStart,    \* the cancel flag when the push in progress began
    drained,             \* a push that was cancelled midway has returned
    taskResult,          \* none, Ok
    joinPc,              \* not_called, blocked, returned
    inFlight,            \* push_metrics calls begun and not yet returned
    failStreak,          \* failed push cycles in a row, up to now
    pushCount,           \* push cycles begun so far
    lastStart            \* the time the latest push cycle began, -1 before

mainVars == <<mpc, bearer_tokens_path, items, allower, startupErr>>
reqVars == <<rpc, req, li, extensions, timeoutArmed, authResult, relayInvoked,
             relayErr, body_bytes, upstreamReq, upstreamResp, resp, failures>>
gateVars == <<queried>>
hdrVars == <<hIn, hOut, hpc>>
pushVars == <<pushPc, cancelled, now, deadline, client, pushOutcomeLog,
              cancelledAtStart, drained, taskResult, joinPc, inFlight,
              failStreak, pushCount, lastStart>>
pushHist == <<inFlight, failStreak, pushCount, lastStart>>
vars == <<mainVars, reqVars, gateVars, hdrVars, pushVars>>

(***************************************************************************)
(* Inputs.                                                                 *)
(***************************************************************************)
RECURSIVE SeqsUpTo(_, _)
SeqsUpTo(S, n) ==
    IF n = 0 THEN {<<>>}
    ELSE LET shorter == SeqsUpTo(S, n - 1)
         IN shorter \cup {Append(s, x) : s \in shorter, x \in S}

ItemLists == SeqsUpTo(Tokens, MaxItems)

ROUTE == "/publish/metrics"
Methods == {"POST", "GET", "PATCH"}
Paths == {ROUTE, "/other"}

\* Authorization header values: "Bearer a", "Bearer ab", "Bearer A",
\* "bearer a", "Basic a", "Bearera", "Bearer " + byte 200, "a", "Bearer ".
AuthValues ==
    { BearerPrefix \o <<97>>,
      BearerPrefix \o <<97, 98>>,
      BearerPrefix \o <<65>>,
      <<98, 101, 97, 114, 101, 114, 32, 97>>,
      <<66, 97, 115, 105, 99, 32, 97>>,
      <<66, 101, 97, 114, 101, 114, 97>>,
      BearerPrefix \o <<200>>,
      <<97>>,
      BearerPrefix }

AUTHORIZATION == "authorization"

\* The request's headers: an optional Authorization header, then an optional
\* header x-a with the two values "1" and "2".
ExtraHeaders == {<<>>, <<[name |-> "x-a", values |-> <<<<49>>, <<50>>>>]>>}
AuthHeaders ==
    {<<>>} \cup {<<[name |-> AUTHORIZATION, values |-> <<v>>]>> : v \in AuthValues}
RequestHeaders == {a \o x : a \in AuthHeaders, x \in ExtraHeaders}

\* Bodies of 0, 1, 2 (= MAX_BODY_SIZE) and 3 bytes.
Bodies == {<<>>, <<7>>, <<7, 200>>, <<200, 7, 7>>}

Requests ==
    [method : Methods, path : Paths, headers : RequestHeaders, body : Bodies]

NoReq == [method |-> "", path |-> "", headers |-> <<>>, body |-> <<>>]

UpstreamStatuses == {200, 404, 500}
\* "ok", and a body that is no valid UTF-8
UpstreamBodies == {<<111, 107>>, <<200, 107>>}
NoUpstreamResp == [status |-> 0, body |-> <<>>]
NoUpstreamReq == [sent |-> FALSE, method |-> "", headers |-> <<>>, body |-> <<>>]
NoResp == [status |-> 0, body |-> <<>>]

\* "Unauthorized"
UnauthorizedBody == <<85, 110, 97, 117, 116, 104, 111, 114, 105, 122, 101, 100>>
\* axum's MissingExtension rejection text, abbreviated "Missing request extension"
MissingExtensionBody == <<77, 105, 115, 115, 105, 110, 103>>

(***************************************************************************)
(* server.rs app(): the router as the stack of layers, outermost first,    *)
(* that a request to the route and a request to any other path run         *)
(* through.  Router::layer wraps the route and the fallback; route_layer   *)
(* wraps the route (its method router, the 405 answer included) only.  A   *)
(* later call wraps the earlier ones.                                      *)
(***************************************************************************)
Ext(type) == [kind |-> "Extension", type |-> type]
Mw(kind) == [kind |-> kind, type |-> ""]

layer(router, l) ==
    [route |-> <<l>> \o router.route, fallback |-> <<l>> \o router.fallback]

route_layer(router, l) ==
    [route |-> <<l>> \o router.route, fallback |-> router.fallback]

\* Variant of with_allower: the middleware is added whether or not there is
\* an allower.
with_allower_always(router, opt) ==
    layer(route_layer(router, Mw("expect_valid_bearer_token")),
          Ext("BearerTokenProvider"))

\* server.rs:36-40  if let Some(allower) = allower { ... }
with_allower(router, opt) ==
    IF opt.some
    THEN layer(route_layer(router, Mw("expect_valid_bearer_token")),
               Ext("BearerTokenProvider"))
    ELSE router

app(opt) ==
    LET r0 == [route |-> <<>>, fallback |-> <<>>]
        r1 == layer(r0, Ext("ReqwestClient"))
        r2 == route_layer(r1, Mw("DefaultBodyLimit"))
        r3 == with_allower(r2, opt)
        r4 == layer(r3, Mw("TimeoutLayer"))
        r5 == layer(r4, Mw("TraceLayer"))
    IN r5

Stack == IF req.path = ROUTE THEN app(allower).route ELSE app(allower).fallback

(***************************************************************************)
(* main.rs                                                                 *)
(***************************************************************************)
\* main.rs:69-70  load(&args.config)?
LoadConfig ==
    /\ mpc = "load_config"
    /\ \E ok \in BOOLEAN :
         IF ok THEN mpc' = "new_provider" /\ startupErr' = startupErr
               ELSE mpc' = "exit_err" /\ startupErr' = "config"
    /\ UNCHANGED <<bearer_tokens_path, items, allower>>
    /\ UNCHANGED <<reqVars, gateVars, hdrVars, pushVars>>

\* Variant of BearerTokenProvider_new: a token file that cannot be loaded is
\* taken as no token file.
BearerTokenProvider_new_lenient ==
    /\ mpc = "new_provider"
    /\ allower' = IF bearer_tokens_path = "ok" THEN Some(collect(items)) ELSE None
    /\ mpc' = "bind"
    /\ UNCHANGED <<bearer_tokens_path, items, startupErr>>
    /\ UNCHANGED <<reqVars, gateVars, hdrVars, pushVars>>

\* allowers.rs BearerTokenProvider::new, as called at main.rs:74-80
BearerTokenProvider_new ==
    /\ mpc = "new_provider"
    /\ IF bearer_tokens_path = "none"
       THEN allower' = None /\ mpc' = "bind" /\ startupErr' = startupErr
       ELSE IF bearer_tokens_path = "ok"
            THEN /\ allower' = Some(collect(items))
                 /\ mpc' = "bind"
                 /\ startupErr' = startupErr
            ELSE /\ allower' = allower
                 /\ mpc' = "exit_err"
                 /\ startupErr' = "provider"
    /\ UNCHANGED <<bearer_tokens_path, items>>
    /\ UNCHANGED <<reqVars, gateVars, hdrVars, pushVars>>

\* main.rs:83-90  app(..), parse the address, bind, axum::serve(listener, app)
Bind ==
    /\ mpc = "bind"
    /\ \E ok \in BOOLEAN :
         IF ok THEN mpc' = "serving" /\ startupErr' = startupErr
               ELSE mpc' = "exit_err" /\ startupErr' = "bind"
    /\ UNCHANGED <<bearer_tokens_path, items, allower>>
    /\ UNCHANGED <<reqVars, gateVars, hdrVars, pushVars>>

\* An interrupt or terminate signal.  main serves with axum::serve(listener,
\* app) (main.rs:90) and never calls server::server, so no handler is
\* installed (server.rs:75-97 is not reached): the signal's default
\* disposition ends the process at once.
Signal ==
    /\ mpc \in {"load_config", "new_provider", "bind", "serving"}
    /\ mpc' = "killed"
    /\ UNCHANGED <<bearer_tokens_path, items, allower, startupErr>>
    /\ UNCHANGED <<reqVars, gateVars, hdrVars, pushVars>>

(***************************************************************************)
(* One request through the layers.                                         *)
(***************************************************************************)
Respond(status, body) ==
    /\ resp' = [status |-> status, body |-> body]
    /\ rpc' = "responded"

Pass ==
    /\ li' = li + 1
    /\ rpc' = IF li = Len(Stack) THEN "endpoint" ELSE "layers"

AtLayer(kind) ==
    /\ mpc = "serving"
    /\ rpc = "layers"
    /\ Stack[li].kind = kind

\* A connection is accepted and its request read.
Accept ==
    /\ mpc = "serving"
    /\ rpc = "idle"
    /\ \E r \in Requests : req' = r
    /\ rpc' = "layers"
    /\ li' = 1
    /\ UNCHANGED <<extensions, timeoutArmed, authResult, relayInvoked, relayErr,
                   body_bytes, upstreamReq, upstreamResp, resp, failures>>
    /\ UNCHANGED <<mainVars, gateVars, hdrVars, pushVars>>

\* server.rs:50-64
TraceLayer ==
    /\ AtLayer("TraceLayer")
    /\ Pass
    /\ UNCHANGED <<req, extensions, timeoutArmed, authResult, relayInvoked,
                   relayErr, body_bytes, upstreamReq, upstreamResp, resp, failures>>
    /\ UNCHANGED <<mainVars, gateVars, hdrVars, pushVars>>

\* Variant of TimeoutLayer: the layer passes the request on without starting
\* a timer.
TimeoutLayer_unarmed ==
    /\ AtLayer("TimeoutLayer")
    /\ timeoutArmed' = timeoutArmed
    /\ Pass
    /\ UNCHANGED <<req, extensions, authResult, relayInvoked,
                   relayErr, body_bytes, upstreamReq, upstreamResp, resp, failures>>
    /\ UNCHANGED <<mainVars, gateVars, hdrVars, pushVars>>

\* server.rs:46-49
TimeoutLayer ==
    /\ AtLayer("TimeoutLayer")
    /\ timeoutArmed' = TRUE
    /\ Pass
    /\ UNCHANGED <<req, extensions, authResult, relayInvoked,
                   relayErr, body_bytes, upstreamReq, upstreamResp, resp, failures>>
    /\ UNCHANGED <<mainVars, gateVars, hdrVars, pushVars>>

\* server.rs:30 and server.rs:39  Extension(value): the value is stored in the
\* request's extensions under its own type.
ExtensionLayer ==
    /\ AtLayer("Extension")
    /\ extensions' = extensions \cup {Stack[li].type}
    /\ Pass
    /\ UNCHANGED <<req, timeoutArmed, authResult, relayInvoked,
                   relayErr, body_bytes, upstreamReq, upstreamResp, resp, failures>>
    /\ UNCHANGED <<mainVars, gateVars, hdrVars, pushVars>>

\* server.rs:31-34  DefaultBodyLimit::max: the layer only records the limit in
\* the request's extensions, for the extractors that apply it.
DefaultBodyLimit ==
    /\ AtLayer("DefaultBodyLimit")
    /\ extensions' = extensions \cup {"DefaultBodyLimitKind"}
    /\ Pass
    /\ UNCHANGED <<req, timeoutArmed, authResult, relayInvoked,
                   relayErr, body_bytes, upstreamReq, upstreamResp, resp, failures>>
    /\ UNCHANGED <<mainVars, gateVars, hdrVars, pushVars>>

\* middleware.rs:21-31: the header is there, is a string, starts with
\* "Bearer " and the rest is allowed.
valid_bearer(provider, headers) ==
    LET auth_header == HeaderMap_get(headers, AUTHORIZATION)
    IN /\ auth_header.some
       /\ to_str_ok(auth_header.value)
       /\ strip_prefix(auth_header.value, BearerPrefix).some
       /\ allowed(provider, strip_prefix(auth_header.value, BearerPrefix).rest)

\* middleware.rs:15-35 expect_valid_bearer_token, run by middleware::from_fn:
\* the Extension<Arc<BearerTokenProvider>> extractor runs first and rejects
\* with 500 when the request holds no extension of exactly that type.
expect_valid_bearer_token ==
    /\ AtLayer("expect_valid_bearer_token")
    /\ IF "Arc<BearerTokenProvider>" \notin extensions
       THEN /\ authResult' = "missing_extension"
            /\ Respond(INTERNAL_SERVER_ERROR, MissingExtensionBody)
            /\ li' = li
       ELSE IF valid_bearer(allower, req.headers)
            THEN authResult' = "passed" /\ Pass /\ resp' = resp
            ELSE /\ authResult' = "rejected"
                 /\ Respond(UNAUTHORIZED, UnauthorizedBody)
                 /\ li' = li
    /\ UNCHANGED <<req, extensions, timeoutArmed, relayInvoked,
                   relayErr, body_bytes, upstreamReq, upstreamResp, failures>>
    /\ UNCHANGED <<mainVars, gateVars, hdrVars, pushVars>>

\* The router's fallback: no route has the path.
NotFound ==
    /\ mpc = "serving"
    /\ rpc = "endpoint"
    /\ req.path # ROUTE
    /\ Respond(NOT_FOUND, <<>>)
    /\ UNCHANGED <<req, li, extensions, timeoutArmed, authResult, relayInvoked,
                   relayErr, body_bytes, upstreamReq, upstreamResp, failures>>
    /\ UNCHANGED <<mainVars, gateVars, hdrVars, pushVars>>

\* server.rs:29  post(relay_metrics_to_mimir): the route's method router
\* answers any other method itself.
MethodNotAllowed ==
    /\ mpc = "serving"
    /\ rpc = "endpoint"
    /\ req.path = ROUTE
    /\ req.method # "POST"
    /\ Respond(METHOD_NOT_ALLOWED, <<>>)
    /\ UNCHANGED <<req, li, extensions, timeoutArmed, authResult, relayInvoked,
                   relayErr, body_bytes, upstreamReq, upstreamResp, failures>>
    /\ UNCHANGED <<mainVars, gateVars, hdrVars, pushVars>>

(***************************************************************************)
(* handlers.rs relay_metrics_to_mimir                                      *)
(***************************************************************************)
SupportedMethods == {"GET", "POST", "PUT", "DELETE", "HEAD"}

\* handlers.rs:76-85: the same method, or a panic.
convert_axum_method_to_reqwest_method(method) ==
    IF method \in SupportedMethods
    THEN [panic |-> FALSE, method |-> method]
    ELSE [panic |-> TRUE, method |-> ""]

\* axum::body::to_bytes(body, limit)
to_bytes(body, limit) ==
    IF Len(body) > limit
    THEN [ok |-> FALSE, bytes |-> <<>>]
    ELSE [ok |-> TRUE, bytes |-> body]

\* Variant of relay_error: the error's text is sent to the caller.
relay_error_echo(kind, detail) == [status |-> BAD_GATEWAY, body |-> detail]

\* What the handler answers for a failure: map_err(|e| { log; BAD_GATEWAY }).
relay_error(kind, detail) == [status |-> BAD_GATEWAY, body |-> <<>>]

\* What the handler answers for an upstream response: Ok(response.text()),
\* which axum turns into 200 OK with the text as body.
relay_ok(upstream) == [status |-> OK, body |-> text(upstream.body)]

Fail(kind, detail) ==
    /\ relayErr' = kind
    /\ resp' = relay_error(kind, detail)
    /\ rpc' = "responded"
    /\ failures' = IF failures < MaxFailures THEN failures + 1 ELSE failures

\* Error details as the log line would show them (never part of a response
\* unless the mapping echoes them): "e1" .. "e4".
Detail(kind) ==
    CASE kind = "body_read" -> <<101, 49>>
      [] kind = "send" -> <<101, 50>>
      [] kind = "no_response" -> <<101, 51>>
      [] kind = "text_read" -> <<101, 52>>

\* Variant of relay_start: the route is registered for any method, so the
\* handler is called whatever the method.
relay_start_any_method ==
    /\ mpc = "serving"
    /\ rpc = "endpoint"
    /\ req.path = ROUTE
    /\ IF "ReqwestClient" \notin extensions
       THEN /\ Respond(INTERNAL_SERVER_ERROR, MissingExtensionBody)
            /\ UNCHANGED relayInvoked
       ELSE /\ relayInvoked' = TRUE
            /\ resp' = resp
            /\ rpc' = IF convert_axum_method_to_reqwest_method(req.method).panic
                      THEN "panicked" ELSE "relay_body"
    /\ UNCHANGED <<req, li, extensions, timeoutArmed, authResult,
                   relayErr, body_bytes, upstreamReq, upstreamResp, failures>>
    /\ UNCHANGED <<mainVars, gateVars, hdrVars, pushVars>>

\* handlers.rs:49-55: the route dispatches a POST to the handler; the
\* Extension<ReqwestClient> extractor runs, the request is split and the
\* request builder made.  A panic ends the connection's task only.
relay_start ==
    /\ mpc = "serving"
    /\ rpc = "endpoint"
    /\ req.path = ROUTE
    /\ req.method = "POST"
    /\ IF "ReqwestClient" \notin extensions
       THEN /\ Respond(INTERNAL_SERVER_ERROR, MissingExtensionBody)
            /\ UNCHANGED relayInvoked
       ELSE /\ relayInvoked' = TRUE
            /\ resp' = resp
            /\ rpc' = IF convert_axum_method_to_reqwest_method(req.method).panic
                      THEN "panicked" ELSE "relay_body"
    /\ UNCHANGED <<req, li, extensions, timeoutArmed, authResult,
                   relayErr, body_bytes, upstreamReq, upstreamResp, failures>>
    /\ UNCHANGED <<mainVars, gateVars, hdrVars, pushVars>>

\* handlers.rs:57-60: to_bytes(body, usize::MAX).  The handler took the whole
\* Request, an extractor that does not apply the DefaultBodyLimit extension,
\* so the only limit on the body is the one passed here.
relay_read_body ==
    /\ mpc = "serving"
    /\ rpc = "relay_body"
    /\ \E readable \in BOOLEAN :
         IF readable /\ to_bytes(req.body, USIZE_MAX).ok
         THEN /\ body_bytes' = to_bytes(req.body, USIZE_MAX).bytes
              /\ rpc' = "relay_send"
              /\ UNCHANGED <<relayErr, resp, failures>>
         ELSE /\ Fail("body_read", Detail("body_read"))
              /\ UNCHANGED body_bytes
    /\ UNCHANGED <<req, li, extensions, timeoutArmed, authResult, relayInvoked,
                   upstreamReq, upstreamResp>>
    /\ UNCHANGED <<mainVars, gateVars, hdrVars, pushVars>>

Outbound ==
    [sent |-> TRUE,
     method |-> convert_axum_method_to_reqwest_method(req.method).method,
     headers |-> convert_headers(req.headers),
     body |-> body_bytes]

\* handlers.rs:61-68: send() fails before anything reaches the upstream.
relay_send_error ==
    /\ mpc = "serving"
    /\ rpc = "relay_send"
    /\ Fail("send", Detail("send"))
    /\ UNCHANGED <<req, li, extensions, timeoutArmed, authResult, relayInvoked,
                   body_bytes, upstreamReq, upstreamResp>>
    /\ UNCHANGED <<mainVars, gateVars, hdrVars, pushVars>>

\* handlers.rs:61-68: the upstream receives the request and does not answer:
\* it closes the connection, or the client's own timeout (handlers.rs:40)
\* passes; send() fails.
relay_send_no_response ==
    /\ mpc = "serving"
    /\ rpc = "relay_send"
    /\ upstreamReq' = Outbound
    /\ Fail("no_response", Detail("no_response"))
    /\ UNCHANGED <<req, li, extensions, timeoutArmed, authResult, relayInvoked,
                   body_bytes, upstreamResp>>
    /\ UNCHANGED <<mainVars, gateVars, hdrVars, pushVars>>

\* handlers.rs:61-68: the upstream receives the request and answers.
relay_send_ok ==
    /\ mpc = "serving"
    /\ rpc = "relay_send"
    /\ upstreamReq' = Outbound
    /\ \E st \in UpstreamStatuses, b \in UpstreamBodies :
         upstreamResp' = [status |-> st, body |-> b]
    /\ rpc' = "relay_text"
    /\ UNCHANGED <<req, li, extensions, timeoutArmed, authResult, relayInvoked,
                   relayErr, body_bytes, resp, failures>>
    /\ UNCHANGED <<mainVars, gateVars, hdrVars, pushVars>>

\* handlers.rs:70-73: response.text()
relay_text ==
    /\ mpc = "serving"
    /\ rpc = "relay_text"
    /\ \E readable \in BOOLEAN :
         IF readable
         THEN /\ resp' = relay_ok(upstreamResp)
              /\ rpc' = "responded"
              /\ UNCHANGED <<relayErr, failures>>
         ELSE Fail("text_read", Detail("text_read"))
    /\ UNCHANGED <<req, li, extensions, timeoutArmed, authResult, relayInvoked,
                   body_bytes, upstreamReq, upstreamResp>>
    /\ UNCHANGED <<mainVars, gateVars, hdrVars, pushVars>>

\* server.rs:43-49: the TimeoutLayer's timer fires while the handler is
\* suspended at one of its awaits; the handler's future is dropped.
PipelineTimeout ==
    /\ mpc = "serving"
    /\ rpc \in {"relay_body", "relay_send", "relay_text"}
    /\ timeoutArmed
    /\ Respond(REQUEST_TIMEOUT, <<>>)
    /\ UNCHANGED <<req, li, extensions, timeoutArmed, authResult, relayInvoked,
                   relayErr, body_bytes, upstreamReq, upstreamResp, failures>>
    /\ UNCHANGED <<mainVars, gateVars, hdrVars, pushVars>>

\* The response is written and the connection is ready for the next request.
Finish ==
    /\ mpc = "serving"
    /\ rpc = "responded"
    /\ rpc' = "idle"
    /\ req' = NoReq
    /\ li' = 0
    /\ extensions' = {}
    /\ timeoutArmed' = FALSE
    /\ authResult' = "none"
    /\ relayInvoked' = FALSE
    /\ relayErr' = "none"
    /\ body_bytes' = <<>>
    /\ upstreamReq' = NoUpstreamReq
    /\ upstreamResp' = NoUpstreamResp
    /\ resp' = NoResp
    /\ UNCHANGED failures
    /\ UNCHANGED <<mainVars, gateVars, hdrVars, pushVars>>

(***************************************************************************)
(* The relay binary.                                                       *)
(***************************************************************************)
ReqIdle ==
    /\ rpc = "idle"
    /\ req = NoReq
    /\ li = 0
    /\ extensions = {}
    /\ timeoutArmed = FALSE
    /\ authResult = "none"
    /\ relayInvoked = FALSE
    /\ relayErr = "none"
    /\ body_bytes = <<>>
    /\ upstreamReq = NoUpstreamReq
    /\ upstreamResp = NoUpstreamResp
    /\ resp = NoResp
    /\ failures = 0

GateIdle == queried = <<>>

HdrIdle == hIn = <<>> /\ hOut = <<>> /\ hpc = "off"

PushIdle ==
    /\ pushPc = "NotStarted"
    /\ cancelled = FALSE
    /\ now = 0
    /\ deadline = 0
    /\ client = 0
    /\ pushOutcomeLog = "none"
    /\ cancelledAtStart = FALSE
    /\ drained = FALSE
    /\ taskResult = "none"
    /\ joinPc = "not_called"
    /\ inFlight = 0
    /\ failStreak = 0
    /\ pushCount = 0
    /\ lastStart = -1

Init ==
    /\ mpc = "load_config"
    /\ bearer_tokens_path \in {"none", "ok", "unreadable", "malformed"}
    /\ items \in (IF bearer_tokens_path = "ok" THEN ItemLists ELSE {<<>>})
    /\ allower = None
    /\ startupErr = "none"
    /\ ReqIdle
    /\ GateIdle
    /\ HdrIdle
    /\ PushIdle

Next ==
    \/ LoadConfig
    \/ BearerTokenProvider_new
    \/ Bind
    \/ Signal
    \/ Accept
    \/ TraceLayer
    \/ TimeoutLayer
    \/ ExtensionLayer
    \/ DefaultBodyLimit
    \/ expect_valid_bearer_token
    \/ NotFound
    \/ MethodNotAllowed
    \/ relay_start
    \/ relay_read_body
    \/ relay_send_error
    \/ relay_send_no_response
    \/ relay_send_ok
    \/ relay_text
    \/ PipelineTimeout
    \/ Finish

Spec == Init /\ [][Next]_vars

\* The steps of a request that are the server's own code running between two
\* awaits: the layers, the router's answers and the start of the handler.
SyncStep ==
    \/ TraceLayer
    \/ TimeoutLayer
    \/ ExtensionLayer
    \/ DefaultBodyLimit
    \/ expect_valid_bearer_token
    \/ NotFound
    \/ MethodNotAllowed
    \/ relay_start

\* The binary under the scheduling the tokio runtime gives: a connection's
\* task that can run does run, and a timer that is due fires.  Nothing is
\* assumed of the caller sending its body or of the upstream answering.
FairSpec == Spec /\ WF_vars(SyncStep) /\ WF_vars(PipelineTimeout)

(***************************************************************************)
(* BearerTokenProvider on its own: built from a token file, then queried.  *)
(***************************************************************************)
QueryKeys == Tokens \cup {<<>>, <<98>>, <<97, 97>>, <<65, 98>>}

\* allowers.rs:22-26  allower.allowed(&key)
Query ==
    /\ mpc = "bind"
    /\ allower.some
    /\ \E key \in QueryKeys : queried' = <<key, allowed(allower, key)>>
    /\ UNCHANGED <<mainVars, reqVars, hdrVars, pushVars>>

GateInit ==
    /\ mpc = "new_provider"
    /\ bearer_tokens_path \in {"none", "ok", "unreadable", "malformed"}
    /\ items \in (IF bearer_tokens_path = "ok" THEN ItemLists ELSE {<<>>})
    /\ allower = None
    /\ startupErr = "none"
    /\ ReqIdle
    /\ GateIdle
    /\ HdrIdle
    /\ PushIdle

GateNext == BearerTokenProvider_new \/ Query

GateSpec == GateInit /\ [][GateNext]_vars

(***************************************************************************)
(* convert_headers on its own.                                             *)
(***************************************************************************)
HeaderNames == {"x-a", "x-b"}
\* "1", "2" and the single byte 200 (a valid header value that is no string)
HeaderValues == {<<49>>, <<50>>, <<200>>}

ValueLists == SeqsUpTo(HeaderValues, MaxVals) \ {<<>>}

\* Every inbound map: the entries have distinct names and at least one value
\* each; an http::HeaderMap holds valid names and values only.
HeaderMaps ==
    {<<>>}
    \cup {<<[name |-> n, values |-> vs]>> : n \in HeaderNames, vs \in ValueLists}
    \cup {<<[name |-> e[1], values |-> e[2]], [name |-> e[3], values |-> e[4]]>> :
            e \in {x \in HeaderNames \X ValueLists \X HeaderNames \X ValueLists :
                     x[1] # x[3]}}

\* handlers.rs:62  convert_headers(&parts.headers)
Convert ==
    /\ hpc = "in"
    /\ hOut' = convert_headers(hIn)
    /\ hpc' = "out"
    /\ UNCHANGED hIn
    /\ UNCHANGED <<mainVars, reqVars, gateVars, pushVars>>

HeaderInit ==
    /\ mpc = "load_config"
    /\ bearer_tokens_path = "none"
    /\ items = <<>>
    /\ allower = None
    /\ startupErr = "none"
    /\ ReqIdle
    /\ GateIdle
    /\ hIn \in HeaderMaps
    /\ hOut = <<>>
    /\ hpc = "in"
    /\ PushIdle

\* handlers.rs:87-100 applied to its own result: reqwest's HeaderMap is the
\* http::HeaderMap the function takes.
ConvertAgain ==
    /\ hpc = "out"
    /\ hOut' = convert_headers(hOut)
    /\ hpc' = "again"
    /\ UNCHANGED hIn
    /\ UNCHANGED <<mainVars, reqVars, gateVars, pushVars>>

HeaderNext == Convert \/ ConvertAgain

HeaderSpec == HeaderInit /\ [][HeaderNext]_vars

(***************************************************************************)
(* runtime.rs MetricPushRuntime, driven by its owner: the caller of start, *)
(* who holds the cancellation token and calls join.                        *)
(***************************************************************************)
PushOutcomes == {"ok", "encode", "serialize", "compress", "send", "non_2xx"}

\* Variant of next_deadline: MissedTickBehavior::Burst, where the deadline
\* that follows a tick is one period after the deadline of that tick, however
\* late the tick was taken.
next_deadline_burst(timeout, t) == timeout + PUSH_INTERVAL

\* tokio::time::Interval::poll_tick: the deadline that follows a tick taken at
\* time t.  A tick taken late is a missed tick and MissedTickBehavior::Skip
\* (runtime.rs:113) moves the deadline to the next multiple of the period.
next_deadline(timeout, t) ==
    IF t > timeout
    THEN t + PUSH_INTERVAL - ((t - timeout) % PUSH_INTERVAL)
    ELSE timeout + PUSH_INTERVAL

\* runtime.rs:102-115: the task is spawned; the interval's first tick is due
\* at once; the first client is made.
Start ==
    /\ pushPc = "NotStarted"
    /\ pushPc' = "Waiting"
    /\ deadline' = now
    /\ client' = 1
    /\ UNCHANGED <<cancelled, now, pushOutcomeLog, cancelledAtStart, drained,
                   taskResult, joinPc>>
    /\ UNCHANGED pushHist
    /\ UNCHANGED <<mainVars, reqVars, gateVars, hdrVars>>

\* Time passes.
Advance ==
    /\ pushPc # "NotStarted"
    /\ now < MaxTime
    /\ now' = now + 1
    /\ UNCHANGED <<pushPc, cancelled, deadline, client, pushOutcomeLog,
                   cancelledAtStart, drained, taskResult, joinPc>>
    /\ UNCHANGED pushHist
    /\ UNCHANGED <<mainVars, reqVars, gateVars, hdrVars>>

\* Variant of TickBranch: the push is spawned as a task of its own and the
\* loop goes back to select! without waiting for it.
TickBranchSpawnsPush ==
    /\ pushPc = "Waiting"
    /\ deadline <= now
    /\ pushPc' = "Waiting"
    /\ deadline' = next_deadline(deadline, now)
    /\ cancelledAtStart' = cancelled
    /\ inFlight' = inFlight + 1
    /\ pushCount' = pushCount + 1
    /\ lastStart' = now
    /\ UNCHANGED <<cancelled, now, client, pushOutcomeLog, drained, taskResult,
                   joinPc, failStreak>>
    /\ UNCHANGED <<mainVars, reqVars, gateVars, hdrVars>>

\* runtime.rs:118-119: select! takes the interval.tick() branch, which is
\* ready, and push_metrics is called.  select! polls its branches in random
\* order, so the branch can be taken whether or not cancellation is ready too.
TickBranch ==
    /\ pushPc = "Waiting"
    /\ deadline <= now
    /\ pushPc' = "Pushing"
    /\ deadline' = next_deadline(deadline, now)
    /\ cancelledAtStart' = cancelled
    /\ inFlight' = inFlight + 1
    /\ pushCount' = pushCount + 1
    /\ lastStart' = now
    /\ UNCHANGED <<cancelled, now, client, pushOutcomeLog, drained, taskResult,
                   joinPc, failStreak>>
    /\ UNCHANGED <<mainVars, reqVars, gateVars, hdrVars>>

\* Variant of PushReturn: an error of push_metrics is propagated out of the
\* loop, which ends the task.
PushReturnFatal ==
    /\ pushPc = "Pushing"
    /\ \E outcome \in PushOutcomes :
         /\ pushOutcomeLog' = outcome
         /\ client' = client
         /\ failStreak' = IF outcome = "ok" THEN 0 ELSE failStreak + 1
         /\ pushPc' = IF outcome = "ok" THEN "Waiting" ELSE "Done"
         /\ taskResult' = IF outcome = "ok" THEN taskResult ELSE "Err"
    /\ inFlight' = inFlight - 1
    /\ drained' = (drained \/ (cancelled /\ ~cancelledAtStart))
    /\ UNCHANGED <<cancelled, now, deadline, cancelledAtStart, joinPc, pushCount,
                   lastStart>>
    /\ UNCHANGED <<mainVars, reqVars, gateVars, hdrVars>>

\* Variant of PushReturn: the client is made anew only after a transport
\* error; a non-success status keeps the client.
PushReturnKeepsClientOnStatus ==
    /\ pushPc = "Pushing"
    /\ \E outcome \in PushOutcomes :
         /\ pushOutcomeLog' = outcome
         /\ client' = IF outcome \in {"ok", "non_2xx"} THEN client ELSE client + 1
         /\ failStreak' = IF outcome = "ok" THEN 0 ELSE failStreak + 1
    /\ pushPc' = "Waiting"
    /\ inFlight' = inFlight - 1
    /\ drained' = (drained \/ (cancelled /\ ~cancelledAtStart))
    /\ UNCHANGED <<cancelled, now, deadline, cancelledAtStart, taskResult, joinPc,
                   pushCount, lastStart>>
    /\ UNCHANGED <<mainVars, reqVars, gateVars, hdrVars>>

\* Variant of PushReturn: a new client is made after every cycle, whatever
\* its outcome.
PushReturnAlwaysRebuilds ==
    /\ pushPc = "Pushing"
    /\ \E outcome \in PushOutcomes :
         /\ pushOutcomeLog' = outcome
         /\ client' = client + 1
         /\ failStreak' = IF outcome = "ok" THEN 0 ELSE failStreak + 1
    /\ pushPc' = "Waiting"
    /\ inFlight' = inFlight - 1
    /\ drained' = (drained \/ (cancelled /\ ~cancelledAtStart))
    /\ UNCHANGED <<cancelled, now, deadline, cancelledAtStart, taskResult, joinPc,
                   pushCount, lastStart>>
    /\ UNCHANGED <<mainVars, reqVars, gateVars, hdrVars>>

\* runtime.rs:119-130: push_metrics returns inside the tick branch; on an
\* error the client is made anew.  Then the loop waits again.
PushReturn ==
    /\ pushPc = "Pushing"
    /\ \E outcome \in PushOutcomes :
         /\ pushOutcomeLog' = outcome
         /\ client' = IF outcome = "ok" THEN client ELSE client + 1
         /\ failStreak' = IF outcome = "ok" THEN 0 ELSE failStreak + 1
    /\ pushPc' = "Waiting"
    /\ inFlight' = inFlight - 1
    /\ drained' = (drained \/ (cancelled /\ ~cancelledAtStart))
    /\ UNCHANGED <<cancelled, now, deadline, cancelledAtStart, taskResult, joinPc,
                   pushCount, lastStart>>
    /\ UNCHANGED <<mainVars, reqVars, gateVars, hdrVars>>

\* Variant of CancelBranch: cancellation is also raced against push_metrics,
\* so the branch can be taken while a push is running.
CancelBranchAbortsPush ==
    /\ pushPc \in {"Waiting", "Pushing"}
    /\ cancelled
    /\ pushPc' = "Done"
    /\ taskResult' = "Ok"
    /\ UNCHANGED <<cancelled, now, deadline, client, pushOutcomeLog,
                   cancelledAtStart, drained, joinPc>>
    /\ UNCHANGED pushHist
    /\ UNCHANGED <<mainVars, reqVars, gateVars, hdrVars>>

\* Variant of CancelBranch: cancellation is only looked at when a tick is due,
\* so a cancelled loop waits out the rest of the interval.
CancelBranchAtTickOnly ==
    /\ pushPc = "Waiting"
    /\ cancelled
    /\ deadline <= now
    /\ pushPc' = "Done"
    /\ taskResult' = "Ok"
    /\ UNCHANGED <<cancelled, now, deadline, client, pushOutcomeLog,
                   cancelledAtStart, drained, joinPc>>
    /\ UNCHANGED pushHist
    /\ UNCHANGED <<mainVars, reqVars, gateVars, hdrVars>>

\* runtime.rs:131-134: select! takes the cancelled() branch; the task
\* returns Ok(()).  select! is only awaited between pushes.
CancelBranch ==
    /\ pushPc = "Waiting"
    /\ cancelled
    /\ pushPc' = "Done"
    /\ taskResult' = "Ok"
    /\ UNCHANGED <<cancelled, now, deadline, client, pushOutcomeLog,
                   cancelledAtStart, drained, joinPc>>
    /\ UNCHANGED pushHist
    /\ UNCHANGED <<mainVars, reqVars, gateVars, hdrVars>>

\* The owner fires the token: CancellationToken::cancel.
Cancel ==
    /\ pushPc # "NotStarted"
    /\ ~cancelled
    /\ cancelled' = TRUE
    /\ UNCHANGED <<pushPc, now, deadline, client, pushOutcomeLog,
                   cancelledAtStart, drained, taskResult, joinPc>>
    /\ UNCHANGED pushHist
    /\ UNCHANGED <<mainVars, reqVars, gateVars, hdrVars>>

\* runtime.rs:146-149 join: block_on(&mut self.metric_push_handle)
Join ==
    /\ pushPc # "NotStarted"
    /\ joinPc = "not_called"
    /\ joinPc' = "blocked"
    /\ UNCHANGED <<pushPc, cancelled, now, deadline, client, pushOutcomeLog,
                   cancelledAtStart, drained, taskResult>>
    /\ UNCHANGED pushHist
    /\ UNCHANGED <<mainVars, reqVars, gateVars, hdrVars>>

JoinReturn ==
    /\ joinPc = "blocked"
    /\ taskResult # "none"
    /\ joinPc' = "returned"
    /\ UNCHANGED <<pushPc, cancelled, now, deadline, client, pushOutcomeLog,
                   cancelledAtStart, drained, taskResult>>
    /\ UNCHANGED pushHist
    /\ UNCHANGED <<mainVars, reqVars, gateVars, hdrVars>>

PushInit ==
    /\ mpc = "load_config"
    /\ bearer_tokens_path = "none"
    /\ items = <<>>
    /\ allower = None
    /\ startupErr = "none"
    /\ ReqIdle
    /\ GateIdle
    /\ HdrIdle
    /\ PushIdle

PushNext ==
    \/ Start
    \/ Advance
    \/ TickBranch
    \/ PushReturn
    \/ CancelBranch
    \/ Cancel
    \/ Join
    \/ JoinReturn

PushSpec == PushInit /\ [][PushNext]_vars

(***************************************************************************)
(* Properties.                                                             *)
(***************************************************************************)
InFlight == rpc \notin {"idle", "responded"}
PastLayers == rpc \in {"endpoint", "relay_body", "relay_send", "relay_text", "responded"}
IngressPost == req.path = ROUTE /\ req.method = "POST"

\* The request carries Authorization: "Bearer " followed by a loaded token.
CarriesLoadedToken ==
    \E t \in allower.bearer_tokens :
        HeaderMap_get(req.headers, AUTHORIZATION)
            = [some |-> TRUE, value |-> BearerPrefix \o t]

\* C1: with a gate present, a POST to the ingress route reaches the relay if
\* and only if it carries "Bearer " + a loaded token; every other request is
\* answered 401 and neither the relay nor the upstream sees it.
C1_GateForwardsExactlyValidBearer ==
    (allower.some /\ IngressPost) =>
        /\ relayInvoked => CarriesLoadedToken
        /\ (rpc = "responded" /\ CarriesLoadedToken) => relayInvoked
        /\ (rpc = "responded" /\ ~CarriesLoadedToken) =>
              /\ resp.status = UNAUTHORIZED
              /\ ~relayInvoked
              /\ ~upstreamReq.sent

\* C2: allowed(t) is true exactly when t is one of the loaded tokens, by
\* equality of the byte strings, whatever the order and the duplicates of the
\* file's items.
C2_AllowedIffLoaded ==
    (queried # <<>>) =>
        (queried[2] <=> \E i \in DOMAIN items : items[i] = queried[1])

\* The file lists "ab" then "a" twice over; "a" is allowed.
C2_Witness_MemberLoadedLast ==
    /\ items = <<<<97, 98>>, <<97>>>>
    /\ queried = <<<<97>>, TRUE>>

\* C3: without a gate no request meets the authorization stage and every
\* POST to the ingress route reaches the relay whatever its Authorization
\* header; with a gate every request to the ingress route meets the
\* authorization stage before anything behind it.
C3_GateAbsentIffNoAuth ==
    /\ (~allower.some /\ req.path = ROUTE /\ PastLayers) =>
          /\ authResult = "none"
          /\ resp.status # UNAUTHORIZED
    /\ (~allower.some /\ IngressPost /\ rpc = "responded") => relayInvoked
    /\ (allower.some /\ req.path = ROUTE /\ PastLayers) => authResult # "none"

\* No gate, no Authorization header, and the relay has been called.
C3_Witness_NoGateNoHeaderRelayed ==
    /\ ~allower.some
    /\ IngressPost
    /\ ~HasName(req.headers, AUTHORIZATION)
    /\ relayInvoked
    /\ upstreamReq.sent

\* C4: a body of at most MAX_BODY_SIZE bytes reaches the upstream byte for
\* byte; for a larger body the relay is never called, and the request, when
\* the authorization stage has not already answered it, is answered 413.
C4_BodyLimitBeforeRelay ==
    /\ relayInvoked => Len(req.body) <= MAX_BODY_SIZE
    /\ upstreamReq.sent => upstreamReq.body = req.body
    /\ (IngressPost /\ rpc = "responded" /\ Len(req.body) > MAX_BODY_SIZE
          /\ authResult \in {"none", "passed"}) =>
          resp.status = PAYLOAD_TOO_LARGE

\* C5: when the upstream answered with status X and body Y, the relay's
\* answer to the caller has status X and body Y.
C5_UpstreamAnswerPassedThrough ==
    (rpc = "responded" /\ relayErr = "none" /\ resp.status # REQUEST_TIMEOUT
        /\ upstreamResp # NoUpstreamResp) =>
        /\ resp.status = upstreamResp.status
        /\ resp.body = upstreamResp.body

\* C6: every failure inside the relay is answered 502 with an empty body,
\* the same for every kind of failure; no request ends in a panic, and the
\* server, while it runs and the connection is idle, accepts the next request.
C6_RelayFailureIsBadGateway ==
    /\ relayErr # "none" =>
          /\ rpc = "responded"
          /\ resp = [status |-> BAD_GATEWAY, body |-> <<>>]
    /\ rpc # "panicked"
    /\ (mpc = "serving" /\ rpc = "idle") => ENABLED Accept

\* A second relay failure: the server took this request after the first
\* failure, and answers 502 again.
C6_Witness_SecondFailure ==
    /\ failures = 2
    /\ relayErr = "no_response"
    /\ resp.status = BAD_GATEWAY

\* C7: every inbound (name, value) pair with a valid name and value is in
\* the outbound map, each value of a repeated name included; invalid pairs
\* are left out; nothing else is in the outbound map.
C7_EveryValidPairCopied ==
    (hpc = "out") =>
        /\ \A kv \in Pairs(hIn) :
              (HeaderName_from_bytes_ok(kv[1]) /\ HeaderValue_from_bytes_ok(kv[2]))
                  <=> kv \in Pairs(hOut)
        /\ Pairs(hOut) \subseteq Pairs(hIn)

\* C8: the process exits on a signal only when no request is in flight.
C8_NoRequestInFlightAtExit ==
    (mpc = "killed") => ~InFlight

\* C9: once the process has exited on a signal, the Cancellation Signal has
\* been fired and join on the push task has returned.
C9_CancelAndJoinBeforeExit ==
    (mpc = "killed") => (cancelled /\ joinPc = "returned")

\* C10 as stated: once the Cancellation Signal has fired during a push, the
\* push does not run to completion: the loop's next step is its exit.
C10_PushAbandonedOnCancel ==
    [][(pushPc = "Pushing" /\ cancelled) => pushPc' \in {"Pushing", "Done"}]_vars

\* C10 amended: a push in progress is never abandoned, cancelled or not: it
\* ends only by push_metrics returning to the wait; the loop exits only from
\* the wait, with cancellation fired and the result Ok; join returns only
\* after the task has exited.
C10_PushDrainsThenExits ==
    /\ [][(pushPc = "Pushing") => pushPc' \in {"Pushing", "Waiting"}]_vars
    /\ [][(pushPc # "Done" /\ pushPc' = "Done") =>
            (pushPc = "Waiting" /\ cancelled /\ taskResult' = "Ok")]_vars
    /\ [](joinPc = "returned" => (pushPc = "Done" /\ taskResult = "Ok"))

\* Cancellation fired during a push, the push returned, the loop exited and
\* join returned.
C10_Witness_DrainedAndJoined ==
    /\ drained
    /\ pushPc = "Done"
    /\ joinPc = "returned"

\* C11: when the loop, waiting between ticks with no tick due, sees the
\* cancellation, its next step is to exit with Ok(()) without starting another
\* push; it can take that step at once, whatever is left of the interval; a
\* caller blocked in join can then return; and once exited the loop never
\* runs again.
C11_CancelMidIntervalExitsAtOnce ==
    /\ [][(pushPc = "Waiting" /\ cancelled /\ deadline > now /\ pushPc' # pushPc)
            => (pushPc' = "Done" /\ taskResult' = "Ok" /\ pushCount' = pushCount)]_vars
    /\ [](pushPc = "Waiting" /\ cancelled => ENABLED CancelBranch)
    /\ []((joinPc = "blocked" /\ pushPc = "Done") => ENABLED JoinReturn)
    /\ [][pushPc = "Done" =>
            (pushPc' = "Done" /\ taskResult' = "Ok" /\ pushCount' = pushCount
               /\ inFlight' = 0)]_vars

\* The loop was cancelled after its only push began, exited before the next
\* tick was due, and join has returned.
C11_Witness_ExitedMidInterval ==
    /\ pushPc = "Done"
    /\ taskResult = "Ok"
    /\ joinPc = "returned"
    /\ pushCount = 1
    /\ ~cancelledAtStart
    /\ deadline > now


\* C12: a failed push cycle never ends the loop: the step that ends a failed
\* cycle, whatever the failure and however long the streak of failures before
\* it, leaves the loop waiting with the task unfinished; after any streak the
\* loop takes the next due tick; and the loop ends only by the cancellation
\* branch, so an uncancelled loop is always waiting or pushing.
C12_FailedPushKeepsLoopRunning ==
    /\ [][failStreak' > failStreak =>
            (pushPc' = "Waiting" /\ taskResult' = "none")]_vars
    /\ []((failStreak >= 1 /\ pushPc = "Waiting" /\ deadline <= now)
            => ENABLED TickBranch)
    /\ []((pushPc # "NotStarted" /\ ~cancelled)
            => (pushPc \in {"Waiting", "Pushing"} /\ taskResult = "none"))
    /\ [][(pushPc # "Done" /\ pushPc' = "Done") =>
            (cancelled /\ pushPc = "Waiting")]_vars

\* Three cycles in a row have failed and, uncancelled, the loop has begun a
\* fourth push.
C12_Witness_PushAfterThreeFailures ==
    /\ failStreak = 3
    /\ pushCount = 4
    /\ pushPc = "Pushing"
    /\ ~cancelled


\* C13: the step that ends a push cycle whose send failed with a transport
\* error, or whose answer had a non-success status, puts a freshly made client
\* in place, the same way in both cases; and the next push begins with the
\* client that is in place then.
C13_ClientRebuiltAfterSendFailure ==
    /\ [][(pushPc = "Pushing" /\ pushPc' = "Waiting"
             /\ pushOutcomeLog' \in {"send", "non_2xx"})
            => client' = client + 1]_vars
    /\ [][(pushPc = "Waiting" /\ pushPc' = "Pushing") => client' = client]_vars

\* The first cycle ended with a non-success status and the second push is
\* running with the second client.
C13_Witness_SecondPushWithNewClient ==
    /\ pushOutcomeLog = "non_2xx"
    /\ pushCount = 2
    /\ pushPc = "Pushing"
    /\ client = 2


\* C14 as stated: the start times of any two consecutive pushes are at least
\* push_interval apart.
C14_ConsecutivePushesIntervalApart ==
    [][(pushPc = "Waiting" /\ pushPc' = "Pushing" /\ lastStart >= 0)
        => now - lastStart >= PUSH_INTERVAL]_vars

\* C14, amended: missed ticks are skipped, not queued.  When a push begins,
\* the next deadline is in the future, at most push_interval away, and every
\* deadline is a multiple of push_interval after the start of the interval;
\* so no backlog of due ticks builds up, and by any time t no more than
\* t / push_interval + 1 pushes have begun.
C14_MissedTicksSkippedOnGrid ==
    /\ [][(pushPc = "Waiting" /\ pushPc' = "Pushing") =>
            (deadline' > now /\ deadline' - now <= PUSH_INTERVAL)]_vars
    /\ [](deadline % PUSH_INTERVAL = 0)
    /\ [](pushCount <= (now \div PUSH_INTERVAL) + 1)

\* The second push began late, in the middle of a period, and the next
\* deadline is less than push_interval after its start.
C14_Witness_LateTickThenShortWait ==
    /\ pushPc = "Pushing"
    /\ pushCount = 2
    /\ lastStart = PUSH_INTERVAL + 1
    /\ deadline - lastStart < PUSH_INTERVAL


\* C15: at most one push is in flight in every reachable state: a push is in
\* flight exactly while the loop is inside the tick branch, and a push begins
\* only when none is in flight, that is after the one before has returned.
C15_AtMostOnePushInFlight ==
    /\ [](inFlight \in {0, 1})
    /\ [](inFlight = 1 <=> pushPc = "Pushing")
    /\ [][inFlight' > inFlight => inFlight = 0]_vars
    /\ []((pushPc = "Pushing" /\ deadline <= now) => ~ENABLED TickBranch)

\* The second push is still in flight when the next tick has become due.
C15_Witness_TickDueDuringPush ==
    /\ pushPc = "Pushing"
    /\ pushCount = 2
    /\ inFlight = 1
    /\ deadline <= now


\* C16: once the gate has been constructed, no token path has given no gate
\* and a readable, well-formed token file has given a gate that holds exactly
\* the tokens the file lists; with an unreadable or malformed token file main
\* never gets to bind the socket and never serves, and the failed construction
\* ends main with an error; so whenever a request is being served, a gate is
\* present exactly if a token path was given.
C16_GateBuiltOrStartupAborts ==
    /\ (mpc \in {"bind", "serving"} /\ bearer_tokens_path = "none")
          => allower = None
    /\ (mpc \in {"bind", "serving"} /\ bearer_tokens_path = "ok")
          => allower = Some({items[i] : i \in DOMAIN items})
    /\ (bearer_tokens_path \in {"unreadable", "malformed"})
          => (mpc \notin {"bind", "serving"} /\ rpc = "idle" /\ allower = None
                /\ startupErr \in {"none", "config", "provider"})
    /\ (startupErr = "provider")
          => (mpc = "exit_err" /\ bearer_tokens_path \in {"unreadable", "malformed"})
    /\ (rpc # "idle") => (allower.some <=> bearer_tokens_path # "none")

\* A malformed token file has ended main with the provider's error.
C16_Witness_MalformedFileAborts ==
    /\ bearer_tokens_path = "malformed"
    /\ startupErr = "provider"
    /\ mpc = "exit_err"
    /\ rpc = "idle"


\* C17: while the handler waits, for the caller's body or for the upstream,
\* the pipeline's timer is running and can end the request with 408 and an
\* empty body, which is the only way a 408 arises; so every accepted request
\* gets a response as long as the process lives, even if the caller's body or
\* the upstream's answer never comes.
C17_TimeoutBoundsEveryRequest ==
    /\ []((mpc = "serving" /\ rpc \in {"relay_body", "relay_send", "relay_text"})
            => (timeoutArmed /\ ENABLED PipelineTimeout))
    /\ [][(resp'.status = REQUEST_TIMEOUT /\ resp.status # REQUEST_TIMEOUT) =>
            (/\ rpc \in {"relay_body", "relay_send", "relay_text"}
             /\ rpc' = "responded"
             /\ resp'.body = <<>>)]_vars
    /\ (InFlight ~> (rpc = "responded" \/ mpc = "killed"))

\* The request's body was read and sent on, the upstream has not answered,
\* and the caller has its 408.
C17_Witness_TimedOutWaitingForUpstream ==
    /\ rpc = "responded"
    /\ resp.status = REQUEST_TIMEOUT
    /\ relayInvoked
    /\ body_bytes # <<>>
    /\ upstreamResp = NoUpstreamResp


\* C18: every request the authorization stage turns away gets the same answer,
\* status 401 with the constant text "Unauthorized", whatever credential it
\* carried and whatever tokens are loaded.
C18_RejectionIsConstant401 ==
    (rpc = "responded" /\ authResult \in {"rejected", "missing_extension"})
        => resp = [status |-> UNAUTHORIZED, body |-> UnauthorizedBody]


\* C19: the relay handler is invoked only for a POST, a method the method
\* translation supports, so the translation never panics; the request the
\* upstream receives has the inbound method; and a request with any other
\* method is answered without the relay being invoked or the upstream being
\* called, by the route's 405 when no gate stands before it.
C19_UnsupportedMethodNeverReachesRelay ==
    /\ rpc # "panicked"
    /\ relayInvoked =>
          (req.method = "POST" /\ req.method \in SupportedMethods
             /\ req.path = ROUTE)
    /\ upstreamReq.sent => upstreamReq.method = req.method
    /\ (rpc = "responded" /\ req.method # "POST") =>
          (/\ ~relayInvoked
           /\ ~upstreamReq.sent
           /\ (req.path = ROUTE /\ ~allower.some)
                 => resp.status = METHOD_NOT_ALLOWED)

\* A PATCH, which the method translation does not support, sent to the
\* ingress route has been answered 405 without the relay being invoked.
C19_Witness_PatchAnswered405 ==
    /\ rpc = "responded"
    /\ req.path = ROUTE
    /\ req.method = "PATCH"
    /\ convert_axum_method_to_reqwest_method(req.method).panic
    /\ resp.status = METHOD_NOT_ALLOWED
    /\ ~relayInvoked


\* C20: the body size limit stands ahead of the authorization check: a POST
\* to the ingress route that is over the size limit and carries no valid
\* credential is answered 413 when a gate is present; and the relay is invoked
\* only for a request that is within the size limit, has the timeout guard
\* running and, when a gate is present, has passed the authorization check.
C20_SizeLimitAheadOfAuthorization ==
    /\ (rpc = "responded" /\ IngressPost /\ allower.some
          /\ Len(req.body) > MAX_BODY_SIZE /\ ~CarriesLoadedToken)
          => resp.status = PAYLOAD_TOO_LARGE
    /\ relayInvoked =>
          (/\ Len(req.body) <= MAX_BODY_SIZE
           /\ timeoutArmed
           /\ allower.some => authResult = "passed")


\* C21: once the Cancellation Signal has fired the loop begins no new push
\* cycle: no push is running that began with the signal already fired, not
\* even when a tick was due at the moment the loop went back to waiting.
C21_NoPushBeginsAfterCancel ==
    (pushPc = "Pushing") => ~cancelledAtStart


\* C22: the push client is replaced exactly when a push cycle returns an
\* error: the step that ends a cycle makes a new client if the cycle failed,
\* at whichever step, and keeps the client if it succeeded; and once the
\* first client is made no other step changes the client.
C22_ClientReplacedExactlyOnError ==
    /\ [][(pushPc = "Pushing" /\ pushPc' = "Waiting") =>
            /\ (pushOutcomeLog' \in PushOutcomes \ {"ok"}) => client' = client + 1
            /\ (pushOutcomeLog' = "ok") => client' = client]_vars
    /\ [][(pushPc # "NotStarted" /\ client' # client) =>
            (pushPc = "Pushing" /\ pushPc' = "Waiting"
               /\ pushOutcomeLog' # "ok")]_vars

\* Two cycles have succeeded one after the other and the first client is
\* still the one in place.
C22_Witness_ClientKeptAcrossSuccesses ==
    /\ pushPc = "Waiting"
    /\ pushCount = 2
    /\ pushOutcomeLog = "ok"
    /\ failStreak = 0
    /\ client = 1


\* C23: header translation is deterministic and idempotent: the outbound map
\* is the value of convert_headers at the inbound map, and translating the
\* outbound map again gives the same map, entry for entry and value for
\* value, so after either translation the result is convert_headers(hIn).
C23_ConvertHeadersIdempotent ==
    /\ [][(hpc = "out" /\ hpc' = "again") =>
            (hOut' = hOut /\ Pairs(hOut') = Pairs(hOut))]_vars
    /\ [](hpc \in {"out", "again"} => hOut = convert_headers(hIn))

\* A map with two names, one of them repeated, has been translated twice.
C23_Witness_TranslatedTwice ==
    /\ hpc = "again"
    /\ Len(hIn) = 2
    /\ \E i \in DOMAIN hIn : Len(hIn[i].values) = 2
    /\ Len(hOut) = 2

====
